---- MODULE Spec2Model ----
(***************************************************************************)
(* Model of reval/relative_validation.py: the label matcher                *)
(* _kuhn_munkres_algorithm and the RelativeValidation protocol (train,     *)
(* test, rndlabels_traineval).                                             *)
(*                                                                         *)
(* Conventions.  A labeling is a sequence of integers (1-indexed here,     *)
(* sample s of the code is position s+1).  Label values, rows and columns  *)
(* of the cost matrix keep the code's 0-based numbering.  A cost           *)
(* (nobs - n_intersec) / nobs is kept as its numerator nobs - n_intersec:  *)
(* every entry of one matrix has the same denominator nobs, so sums and    *)
(* comparisons of costs are those of the numerators.  A 0/1 loss is kept   *)
(* as the number of disagreeing samples, its denominator being the length. *)
(***************************************************************************)
EXTENDS Integers, Sequences, FiniteSets

\* ------------------------------------------------------------------ bounds
MaxObs == 3
MaxLabel == 2

Labels == 0..MaxLabel
Kinds == {"ndarray", "list"}

RECURSIVE SeqsOfLen(_, _)
SeqsOfLen(S, n) ==
    IF n = 0 THEN {<<>>}
    ELSE {Append(q, x) : q \in SeqsOfLen(S, n - 1), x \in S}

SeqsUpTo(S, n) == UNION {SeqsOfLen(S, k) : k \in 0..n}

Labelings == SeqsUpTo(Labels, MaxObs)

\* The validator's runs: sizes of the two data splits, number of
\* randomization rounds, number of states of the random generator.
NTrain == 2
NTest == 2
NRand == 2
MaxRng == 3

\* A sample is its feature value; clustering and classifier label with Classes.
Features == {0, 1}
Classes == {0, 1}

\* ------------------------------------------------- _kuhn_munkres_algorithm
\* set(lab)
SetOf(lab) == {lab[s] : s \in 1..Len(lab)}

\* set(np.transpose(np.argwhere(lab == v))[0])
Indices(lab, v) == {s \in 1..Len(lab) : lab[s] = v}

\* len(set(...true_lab == lab...).intersection(set(...pred_lab == plab...)))
n_intersec(tl, pl, lab, plab) ==
    Cardinality(Indices(tl, lab) \cap Indices(pl, plab))

\* A plausible slip in the cross term: the intersection of the first write
\* is reused, so that wmat[plab, lab] = wmat[lab, plab].
WmatEntrySymmetric(tl, pl, i, j) ==
    IF i <= j
    THEN Len(tl) - n_intersec(tl, pl, i, j)
    ELSE Len(tl) - n_intersec(tl, pl, j, i)

\* The entry wmat[i, j] left by the double loop (numerator of w).  For
\* i <= j it is written in iteration lab = i, plab = j from true_lab == lab
\* and pred_lab == plab; for i > j it is the cross term of iteration
\* lab = j, plab = i, from true_lab == plab and pred_lab == lab.
WmatEntry(tl, pl, i, j) ==
    IF i <= j
    THEN Len(tl) - n_intersec(tl, pl, i, j)
    ELSE LET lab == j
             plab == i
         IN Len(tl) - n_intersec(tl, pl, plab, lab)

nclass(tl) == Cardinality(SetOf(tl))

wmat(tl, pl) ==
    [i \in 0..(nclass(tl) - 1) |->
        [j \in 0..(nclass(tl) - 1) |-> WmatEntry(tl, pl, i, j)]]

\* The assignments of an n x n matrix: col_ind[i] is the column of row i.
Assignments(n) ==
    {f \in [0..(n - 1) -> 0..(n - 1)] :
        \A a, b \in 0..(n - 1) : f[a] = f[b] => a = b}

RECURSIVE SumTo(_, _, _)
SumTo(w, f, n) ==
    IF n = 0 THEN 0 ELSE w[n - 1][f[n - 1]] + SumTo(w, f, n - 1)

TotalCost(w, f) == SumTo(w, f, Cardinality(DOMAIN w))

\* linear_sum_assignment(wmat)[1]: a column assignment of minimal total
\* cost.  Which of several minimal ones is returned is the solver's own
\* tie-break, left open here.
linear_sum_assignment(w) ==
    LET n == Cardinality(DOMAIN w)
    IN {f \in Assignments(n) :
           \A g \in Assignments(n) : TotalCost(w, f) <= TotalCost(w, g)}

\* new_pred_lab.index(v): the first position holding v, -1 standing for
\* the ValueError of a value that is not in the list.
IndexOf(col_ind, v) ==
    LET hits == {i \in DOMAIN col_ind : col_ind[i] = v}
    IN IF hits = {} THEN -1
       ELSE CHOOSE i \in hits : \A k \in hits : i <= k

\* np.array([new_pred_lab.index(i) for i in pred_lab])
pred_perm(col_ind, pl) ==
    IF \E s \in 1..Len(pl) : IndexOf(col_ind, pl[s]) = -1
    THEN [kind |-> "ValueError"]
    ELSE [kind |-> "ok",
          value |-> [s \in 1..Len(pl) |-> IndexOf(col_ind, pl[s])]]

\* A plausible slip in the gate: `or` written for `and`.
BothArraysEither(tk, pk) == tk = "ndarray" \/ pk = "ndarray"

\* The isinstance gate of line 116.
BothArrays(tk, pk) == tk = "ndarray" /\ pk = "ndarray"

\* The outcomes of _kuhn_munkres_algorithm(true_lab, pred_lab).
kuhn_munkres_algorithm(tk, tl, pk, pl) ==
    IF BothArrays(tk, pk)
    THEN {pred_perm(c, pl) : c \in linear_sum_assignment(wmat(tl, pl))}
    ELSE {[kind |-> "TypeError", types |-> <<tk, pk>>]}

\* zero_one_loss(a, b): the number of samples that differ (over Len(a)).
zero_one_loss(a, b) == Cardinality({s \in 1..Len(a) : a[s] /= b[s]})

\* -------------------------------------------------------------------- state
VARIABLES
    true_kind,   \* type of the true_lab argument
    pred_kind,   \* type of the pred_lab argument
    true_lab,    \* the true_lab argument
    pred_lab,    \* the pred_lab argument
    km_pc,       \* "call" before _kuhn_munkres_algorithm ran, "done" after
    km_wmat,     \* the cost matrix the call built
    km_result,   \* what the call returned or raised
    sigma,       \* a relabeling of the predicted label values
    km_relabeled, \* what the call on (true_lab, sigma(pred_lab)) returned or raised
    train_data,  \* the training split handed to the validator
    test_data,   \* the test split handed to the validator
    rnd_train_labels, \* train_labels of the rndlabels_traineval calls compared
    rnd_test_labels,  \* test_labels of the rndlabels_traineval calls compared
    class_method, \* self.class_method: "unfit", or what the last fit learned
    rng,         \* state of numpy's process-wide random generator
    fit_model,   \* the fitted model the caller keeps from train()
    op,          \* the last operation and what it returned or raised
    ref          \* a rndlabels_traineval call kept for comparison

kmvars == <<true_kind, pred_kind, true_lab, pred_lab, km_pc, km_wmat, km_result,
            sigma, km_relabeled>>

datavars == <<train_data, test_data, rnd_train_labels, rnd_test_labels>>

vars == <<true_kind, pred_kind, true_lab, pred_lab, km_pc, km_wmat, km_result,
          sigma, km_relabeled, train_data, test_data, rnd_train_labels,
          rnd_test_labels, class_method, rng, fit_model, op, ref>>

NoResult == [kind |-> "none"]

InitKM ==
    /\ true_kind \in Kinds
    /\ pred_kind \in Kinds
    /\ true_lab \in Labelings
    /\ pred_lab \in Labelings
    /\ km_pc = "call"
    /\ km_wmat = <<>>
    /\ km_result = NoResult
    /\ sigma = <<>>
    /\ km_relabeled = NoResult
    /\ train_data = <<>>
    /\ test_data = <<>>
    /\ rnd_train_labels = <<>>
    /\ rnd_test_labels = <<>>
    /\ class_method = "unfit"
    /\ rng = 0
    /\ fit_model = [held |-> FALSE]
    /\ op = [name |-> "none"]
    /\ ref = [name |-> "none"]

\* One call of _kuhn_munkres_algorithm on the drawn arguments.
Match ==
    /\ km_pc = "call"
    /\ km_pc' = "done"
    /\ km_wmat' = IF BothArrays(true_kind, pred_kind)
                  THEN wmat(true_lab, pred_lab) ELSE <<>>
    /\ km_result' \in kuhn_munkres_algorithm(true_kind, true_lab, pred_kind, pred_lab)
    /\ UNCHANGED <<true_kind, pred_kind, true_lab, pred_lab, sigma, km_relabeled>>
    /\ UNCHANGED <<datavars, class_method, rng, fit_model, op, ref>>

NextKM == Match

SpecKM == InitKM /\ [][NextKM]_vars

\* The bijective relabelings of the label values.
Relabelings == {f \in [Labels -> Labels] : \A a, b \in Labels : f[a] = f[b] => a = b}

Relabel(sg, pl) == [s \in 1..Len(pl) |-> sg[pl[s]]]

\* A second call, on the same true_lab and the relabeled pred_lab.
MatchRelabeled ==
    /\ km_pc = "done"
    /\ km_pc' = "both"
    /\ \E sg \in Relabelings :
          /\ sigma' = sg
          /\ km_relabeled' \in
                kuhn_munkres_algorithm(true_kind, true_lab, pred_kind, Relabel(sg, pred_lab))
    /\ UNCHANGED <<true_kind, pred_kind, true_lab, pred_lab, km_wmat, km_result>>
    /\ UNCHANGED <<datavars, class_method, rng, fit_model, op, ref>>

NextRelabel == Match \/ MatchRelabeled

SpecRelabel == InitKM /\ [][NextRelabel]_vars

\* ------------------------------------------------------ RelativeValidation
\* class_method.fit(data, labels) with a deterministic classifier: a lookup
\* table giving each feature value the label of the first sample that has
\* it, and the first sample's label to a value it never saw.
fit(data, labels) ==
    [x \in Features |->
        IF \E s \in 1..Len(data) : data[s] = x
        THEN labels[CHOOSE s \in 1..Len(data) :
                        /\ data[s] = x
                        /\ \A r \in 1..Len(data) : data[r] = x => s <= r]
        ELSE labels[1]]

\* model.predict(data)
predict(model, data) == [s \in 1..Len(data) |-> model[data[s]]]

\* np.random.seed(0)
Seed == 0

\* The state of the generator after one draw.
RngAdvance(r) == (r + 1) % MaxRng

\* The number a draw in state r yields.
RngOutput(r) == (r + 1) \div 2

RECURSIVE Shuffled(_, _)
\* The permutation of seq picked by the number k (its digits choose, one by
\* one, which of the remaining elements comes next).
Shuffled(k, seq) ==
    IF Len(seq) = 0 THEN <<>>
    ELSE LET i == (k % Len(seq)) + 1
             rest == [j \in 1..(Len(seq) - 1) |-> IF j < i THEN seq[j] ELSE seq[j + 1]]
         IN <<seq[i]>> \o Shuffled(k \div Len(seq), rest)

RECURSIVE shuf_tr(_, _, _)
\* [np.random.permutation(train_labels) for _ in range(n)] from state r:
\* the list, and the state the generator is left in.
shuf_tr(r, labels, n) ==
    IF n = 0 THEN [list |-> <<>>, rng |-> r]
    ELSE LET tail == shuf_tr(RngAdvance(r), labels, n - 1)
         IN [list |-> <<Shuffled(RngOutput(r), labels)>> \o tail.list,
             rng |-> tail.rng]

\* The seeding left out: the draws start from whatever state the generator is in.
RngAtEntryUnseeded(r) == r

\* The generator's state when the draws of rndlabels_traineval start.
RngAtEntry(r) == Seed

\* zero_one_loss(true, _kuhn_munkres_algorithm(true, pred)) on two arrays:
\* the disagreement counts it may give, -1 for a call that raises.
AlignedMismatches(tl, pl) ==
    {IF r.kind = "ok" THEN zero_one_loss(tl, r.value) ELSE -1 :
        r \in kuhn_munkres_algorithm("ndarray", tl, "ndarray", pl)}

RECURSIVE RndLoop(_, _, _, _, _, _, _, _)
\* The loop of rndlabels_traineval from round i on: the ways it can end,
\* each with the classifier it leaves behind.  tr and ts are the sums of the
\* disagreement counts so far (the means are tr / (nrand * len(train_data))
\* and ts / (nrand * len(test_data))).
RndLoop(shuf, i, tr, ts, model, trd, tsd, tsl) ==
    IF i > Len(shuf)
    THEN {[outcome |-> [kind |-> "ok", tr |-> tr, ts |-> ts], model |-> model]}
    ELSE LET lab == shuf[i]
             fitted == fit(trd, lab)
             mtr == zero_one_loss(lab, predict(fitted, trd))
         IN UNION {IF m = -1
                   THEN {[outcome |-> [kind |-> "ValueError"], model |-> fitted]}
                   ELSE RndLoop(shuf, i + 1, tr + mtr, ts + m, fitted, trd, tsd, tsl) :
                   m \in AlignedMismatches(tsl, predict(fitted, tsd))}

InitData ==
    /\ train_data \in SeqsOfLen(Features, NTrain)
    /\ test_data \in SeqsOfLen(Features, NTest)

InitValidator ==
    /\ true_kind = "ndarray"
    /\ pred_kind = "ndarray"
    /\ true_lab = <<>>
    /\ pred_lab = <<>>
    /\ km_pc = "idle"
    /\ km_wmat = <<>>
    /\ km_result = NoResult
    /\ sigma = <<>>
    /\ km_relabeled = NoResult
    /\ class_method = "unfit"
    /\ rng \in 0..(MaxRng - 1)
    /\ fit_model = [held |-> FALSE]
    /\ op = [name |-> "none"]
    /\ ref = [name |-> "none"]

\* train(train_data); keep says whether the caller keeps the returned model.
TrainOp(keep) ==
    \E clustlab_tr \in SeqsOfLen(Classes, Len(train_data)) :
        LET fitclass_tr == fit(train_data, clustlab_tr)
            classlab_tr == predict(fitclass_tr, train_data)
        IN /\ class_method' = fitclass_tr
           /\ op' = [name |-> "train",
                     outcome |-> [kind |-> "ok",
                                  misclass |-> zero_one_loss(clustlab_tr, classlab_tr),
                                  labels |-> clustlab_tr]]
           /\ fit_model' = IF keep
                           THEN [held |-> TRUE, at_return |-> fitclass_tr]
                           ELSE fit_model
           /\ UNCHANGED <<kmvars, datavars, rng, ref>>

train == \E keep \in BOOLEAN : TrainOp(keep)

\* test(test_data, fit_model) on the model kept from train(): fit returned
\* the classifier object itself, so fit_model is self.class_method.
test ==
    /\ fit_model.held
    /\ \E clustlab_ts \in SeqsOfLen(Classes, Len(test_data)) :
         LET classlab_ts == predict(class_method, test_data)
         IN \E m \in AlignedMismatches(clustlab_ts, classlab_ts) :
              op' = [name |-> "test",
                     model |-> class_method,
                     clustered |-> clustlab_ts,
                     outcome |-> IF m = -1
                                 THEN [kind |-> "ValueError"]
                                 ELSE [kind |-> "ok", misclass |-> m,
                                       labels |-> clustlab_ts]]
    /\ UNCHANGED <<kmvars, datavars, class_method, rng, fit_model, ref>>

\* rndlabels_traineval(train_data, test_data, train_labels, test_labels);
\* keep says whether the caller keeps the returned pair for a later comparison.
rndlabels_traineval(train_labels, test_labels, keep) ==
    LET drawn == shuf_tr(RngAtEntry(rng), train_labels, NRand)
    IN /\ rng' = drawn.rng
       /\ \E e \in RndLoop(drawn.list, 1, 0, 0, class_method,
                           train_data, test_data, test_labels) :
            /\ class_method' = e.model
            /\ op' = [name |-> "rndlabels", seeded |-> (rng = Seed),
                      outcome |-> e.outcome]
            /\ ref' = IF keep THEN op' ELSE ref
       /\ UNCHANGED <<kmvars, datavars, fit_model>>

\* A call on any labels of the two splits.
RndLabelsAny ==
    \E trl \in SeqsOfLen(Classes, Len(train_data)),
       tsl \in SeqsOfLen(Classes, Len(test_data)) :
        rndlabels_traineval(trl, tsl, FALSE)

Init ==
    /\ InitValidator
    /\ InitData
    /\ rnd_train_labels = <<>>
    /\ rnd_test_labels = <<>>

Next == train \/ test \/ RndLabelsAny

Spec == Init /\ [][Next]_vars

\* The calls under comparison: all on the same four arguments.
RndLabelsSameArgs ==
    \E keep \in BOOLEAN :
        /\ keep => ref.name = "none"
        /\ rndlabels_traineval(rnd_train_labels, rnd_test_labels, keep)

\* train() whose returned model the caller drops.
TrainDiscard == TrainOp(FALSE)

\* Any other use of numpy's global generator between two calls.
OtherRandomDraw ==
    /\ rng' = RngAdvance(rng)
    /\ UNCHANGED <<kmvars, datavars, class_method, fit_model, op, ref>>

InitRnd ==
    /\ InitValidator
    /\ InitData
    /\ rnd_train_labels \in SeqsOfLen(Classes, NTrain)
    /\ rnd_test_labels \in SeqsOfLen(Classes, NTest)

NextRnd == TrainDiscard \/ RndLabelsSameArgs \/ OtherRandomDraw

SpecRnd == InitRnd /\ [][NextRnd]_vars

\* ------------------------------------------------ claims on the matcher
\* _kuhn_munkres_algorithm was called on (true_lab, pred_lab) and has ended.
CallDone == km_pc \in {"done", "both"}

ArrayCallDone == CallDone /\ BothArrays(true_kind, pred_kind)

\* Both labelings use the label values 0..nclass-1, nclass being the number
\* of distinct values of true_lab.
InRange(tl, pl) ==
    /\ SetOf(tl) = 0..(nclass(tl) - 1)
    /\ SetOf(pl) \subseteq 0..(nclass(tl) - 1)

\* CostMatrix[i, j] of the data model, as a numerator over nobs.
CostMatrix(tl, pl, i, j) ==
    Len(tl) - Cardinality({s \in 1..Len(tl) : tl[s] = i /\ pl[s] = j})

RECURSIVE CostSum(_, _, _, _)
CostSum(tl, pl, pi, n) ==
    IF n = 0 THEN 0
    ELSE CostMatrix(tl, pl, n - 1, pi[n - 1]) + CostSum(tl, pl, pi, n - 1)

\* pred_lab rewritten through the inverse of pi: label pi[i] becomes i.
ThroughInverse(pi, pl) ==
    [s \in 1..Len(pl) |-> CHOOSE i \in DOMAIN pi : pi[i] = pl[s]]

\* C1: for equal-length, non-empty labelings over 0..nclass-1 the call
\* returns pred_lab relabeled through the inverse of a bijection whose total
\* cost on CostMatrix is at most that of every other bijection.
C1_Optimal ==
    (/\ ArrayCallDone
     /\ Len(true_lab) = Len(pred_lab)
     /\ Len(true_lab) > 0
     /\ InRange(true_lab, pred_lab))
    => /\ km_result.kind = "ok"
       /\ \E pi \in Assignments(nclass(true_lab)) :
             /\ km_result.value = ThroughInverse(pi, pred_lab)
             /\ \A g \in Assignments(nclass(true_lab)) :
                   CostSum(true_lab, pred_lab, pi, nclass(true_lab))
                     <= CostSum(true_lab, pred_lab, g, nclass(true_lab))

\* C1 witness: a call whose optimal bijection is not the identity.
C1_Witness ==
    /\ ArrayCallDone
    /\ true_lab = <<0, 0, 1>>
    /\ pred_lab = <<1, 1, 0>>
    /\ km_result = [kind |-> "ok", value |-> <<0, 0, 1>>]

\* C2: relabeling the predicted values by a bijection sigma leaves the
\* disagreement rate of the matched labeling against true_lab unchanged
\* (both calls return, and with the same number of disagreements).
C2_RelabelInvariant ==
    (/\ km_pc = "both"
     /\ BothArrays(true_kind, pred_kind)
     /\ Len(true_lab) = Len(pred_lab))
    => /\ km_result.kind = "ok" <=> km_relabeled.kind = "ok"
       /\ km_result.kind = "ok" =>
             zero_one_loss(true_lab, km_result.value)
               = zero_one_loss(true_lab, km_relabeled.value)

\* C3: matching a labeling L against itself returns L, whatever label
\* values L uses.
C3_Identity ==
    (ArrayCallDone /\ true_lab = pred_lab)
    => km_result = [kind |-> "ok", value |-> true_lab]

\* The disagreement counts the optimal assignments of w lead to.
OptimalMismatches(w, tl, pl) ==
    {LET r == pred_perm(c, pl)
     IN IF r.kind = "ok" THEN zero_one_loss(tl, r.value) ELSE -1 :
        c \in linear_sum_assignment(w)}

\* C4: for equal-length labelings over 0..nclass-1 every assignment of
\* minimal total cost on the matrix the call built gives the same
\* disagreement count against true_lab, the one of the returned labeling.
C4_TieBreak ==
    (/\ ArrayCallDone
     /\ Len(true_lab) = Len(pred_lab)
     /\ InRange(true_lab, pred_lab))
    => /\ km_result.kind = "ok"
       /\ OptimalMismatches(km_wmat, true_lab, pred_lab)
            = {zero_one_loss(true_lab, km_result.value)}

\* C4 witness: two optimal assignments, the returned labeling coming from
\* the one that is not the identity.
C4_Witness ==
    /\ ArrayCallDone
    /\ true_lab = <<0, 1>>
    /\ pred_lab = <<0, 0>>
    /\ Cardinality(linear_sum_assignment(km_wmat)) = 2
    /\ km_result = [kind |-> "ok", value |-> <<1, 1>>]

C8_ShapeMismatch ==
    (CallDone /\ Len(true_lab) /= Len(pred_lab))
    => km_result.kind /= "ok"

\* C9: a call on labelings with zero samples fails instead of returning an
\* empty labeling.
C9_Degenerate ==
    (CallDone /\ Len(true_lab) = 0 /\ Len(pred_lab) = 0)
    => km_result.kind /= "ok"

\* ---------------------------------------------- claims on the validator
\* C5: test() on a fitted model completes, with a misclassification rate in
\* [0, 1] and the fresh clustering labels, whatever labels the clustering
\* and the model produce.
C5_TestCompletes ==
    op.name = "test"
    => /\ op.outcome.kind = "ok"
       /\ op.outcome.misclass \in 0..Len(test_data)
       /\ op.outcome.labels = op.clustered

\* C6: two rndlabels_traineval calls on equal arguments return the same
\* pair of means, whatever the generator and the classifier were left in
\* before each of them.
C6_Reproducible ==
    (op.name = "rndlabels" /\ ref.name = "rndlabels")
    => op.outcome = ref.outcome

\* C6 witness: two calls on train_labels that a permutation changes, both
\* returning a pair of means, one entered with the generator in its seed
\* state and the other entered in another state.
C6_Witness ==
    /\ op.name = "rndlabels"
    /\ ref.name = "rndlabels"
    /\ op.seeded /= ref.seeded
    /\ Cardinality(SetOf(rnd_train_labels)) > 1
    /\ op.outcome.kind = "ok"
    /\ op.outcome.ts > 0

\* C10: the model test() predicts with is the one train() returned to the
\* caller, whatever ran between the two.
C10_ModelReadOnly ==
    op.name = "test" => op.model = fit_model.at_return

====
